---- MODULE Spec2Model ----
(***************************************************************************)
(* Model of src/src/main.rs: the Mapping value type (get / set / apply)    *)
(* and the iterative-deepening, data-parallel search of crack.             *)
(*                                                                         *)
(* Bytes are their ASCII codes: 'A' = 65, 'a' = 97, ' ' = 32.  The program *)
(* works on the 26 letters; the model works on the first N letters of each *)
(* alphabet, so "uppercase" is 'A' .. 'A'+N-1 and every 26 of the source   *)
(* is N here.                                                              *)
(***************************************************************************)
EXTENDS Integers, Sequences, FiniteSets, TLC

VARIABLES
    \* ---- crack(ciper, words_by_length) ----
    ciper,            \* the ciphertext bytes (argument of crack)
    words_by_length,  \* the dictionary: bucket of length L at index L + 1
    ciper_words,      \* the tokens of ciper, split once when crack starts
    pc,               \* "search": inside the for loop; "done": crack returned;
                      \* "panicked": an unwrap failed; "hung": a closure call
                      \* is in a while loop that cannot exit
    k,                \* the loop variable of `for k in 0u8..26`
    iter,             \* how many prefixes the workers pulled from permutations(k)
    running,          \* the prefixes the workers are running the closure on
    found,            \* the Some(..) values the workers' folders hold for this k
    result,           \* the value crack returned (None until then)
    started,          \* history: per k, the prefixes pulled by a worker
    evaluated,        \* history: per k, the prefixes whose closure returned, and how
    \* ---- one run of the closure's two loops, step by step ----
    prefix,           \* the ordered selection handed to the closure
    offset,           \* the offset the completion starts from
    mapping,          \* the prefix Mapping under construction
    fmapping,         \* the completion under construction
    di,               \* the scan position
    i,                \* the loop variable of either loop
    steps,            \* iterations of the last while loop
    cpc,              \* "prefix", "complete", "completed", "panicked", "hung"
    \* ---- Mapping used on its own ----
    self,             \* the Mapping value the caller holds
    calls,            \* the last (at most two) set calls: arguments, receiver, result
    applied           \* the last apply call: text, receiver, output

cvars == <<ciper, words_by_length, ciper_words, pc, iter, running, found, result,
           started, evaluated>>
lvars == <<prefix, offset, mapping, fmapping, di, i, steps, cpc>>
mvars == <<self, calls, applied>>
vars == <<ciper, words_by_length, ciper_words, pc, k, iter, running, found, result,
          started, evaluated, prefix, offset, mapping, fmapping, di, i, steps, cpc,
          self, calls, applied>>

(***************************************************************************)
(* Bounds                                                                  *)
(***************************************************************************)
\* number of letters of the alphabet (26 in the program)
N == 3
\* longest ciphertext handed to crack, in bytes
MaxCipherLen == 3
\* most words a dictionary handed to crack holds
MaxDictWords == 2
\* longest byte sequence handed to apply on its own
MaxTextLen == 2

\* number of workers of the thread pool
NumWorkers == 2
\* longest word file (../words.txt) the dictionary is built from, in bytes
MaxFileLen == 4
\* longest word of a dictionary handed to crack
MaxWordLen == 2

(***************************************************************************)
(* Bytes and options                                                       *)
(***************************************************************************)
Upper == {65 + x : x \in 0..(N - 1)}      \* b'A' ..
Lower == {97 + x : x \in 0..(N - 1)}      \* b'a' ..

None == <<>>
Some(x) == <<x>>
unwrap_or(o, d) == IF o = None THEN d ELSE o[1]

Ok(x) == [tag |-> "Ok", val |-> x]
Err == [tag |-> "Err"]

is_ascii_uppercase(c) == c >= 65 /\ c <= 65 + (N - 1)

(***************************************************************************)
(* Mapping                                                                 *)
(***************************************************************************)
Mapping_default == [map |-> [x \in 0..(N - 1) |-> None], members |-> 0]

\* members |= 1 << idx_l
BitOr(members, idx_l) ==
    IF (members \div (2 ^ idx_l)) % 2 = 1 THEN members ELSE members + 2 ^ idx_l

get(m, c) == m.map[c - 65]

\* variant: no conflict check
set_overwrite(m, c, l) ==
    Ok([map |-> [m.map EXCEPT ![c - 65] = Some(l)],
        members |-> BitOr(m.members, l - 97)])

\* variant: members += 1 << idx_l
set_add_members(m, c, l) ==
    LET idx_c == c - 65 IN
    IF m.map[idx_c] = None \/ m.map[idx_c] = Some(l)
    THEN Ok([map |-> [m.map EXCEPT ![idx_c] = Some(l)],
             members |-> m.members + 2 ^ (l - 97)])
    ELSE Err

\* variant: result starts from Mapping::default() in place of self.clone()
set_from_default(m, c, l) ==
    LET idx_c == c - 65 IN
    IF m.map[idx_c] = None \/ m.map[idx_c] = Some(l)
    THEN Ok([map |-> [Mapping_default.map EXCEPT ![idx_c] = Some(l)],
             members |-> BitOr(Mapping_default.members, l - 97)])
    ELSE Err

\* variant: members |= 1 << idx_c
set_members_idx_c(m, c, l) ==
    LET idx_c == c - 65 IN
    IF m.map[idx_c] = None \/ m.map[idx_c] = Some(l)
    THEN Ok([map |-> [m.map EXCEPT ![idx_c] = Some(l)],
             members |-> BitOr(m.members, idx_c)])
    ELSE Err

\* variant: a plaintext letter already in members is refused for an unset entry
set_unique(m, c, l) ==
    LET idx_c == c - 65 IN
    IF m.map[idx_c] = Some(l)
       \/ (m.map[idx_c] = None /\ (m.members \div (2 ^ (l - 97))) % 2 = 0)
    THEN Ok([map |-> [m.map EXCEPT ![idx_c] = Some(l)],
             members |-> BitOr(m.members, l - 97)])
    ELSE Err

set(m, c, l) ==
    LET idx_c == c - 65 IN
    IF m.map[idx_c] = None \/ m.map[idx_c] = Some(l)
    THEN LET idx_l == l - 97 IN
         Ok([map |-> [m.map EXCEPT ![idx_c] = Some(l)],
             members |-> BitOr(m.members, idx_l)])
    ELSE Err

\* set takes &self and writes into a clone of it: what the receiver holds
\* once the call has returned
set_self(m, c, l) == m

\* variant: an unset letter comes out in lowercase
apply_unset_lower(m, text) ==
    [x \in 1..Len(text) |->
        IF is_ascii_uppercase(text[x]) THEN unwrap_or(get(m, text[x]), text[x] + 32)
        ELSE text[x]]

apply(m, text) ==
    [x \in 1..Len(text) |->
        IF is_ascii_uppercase(text[x]) THEN unwrap_or(get(m, text[x]), text[x])
        ELSE text[x]]

(***************************************************************************)
(* crack: helpers                                                          *)
(***************************************************************************)
\* ciper.split(|&b| b == b' '): the tokens between the spaces, empty ones kept
RECURSIVE split(_)
split(s) ==
    IF \A x \in 1..Len(s) : s[x] # 32 THEN <<s>>
    ELSE LET x == CHOOSE j \in 1..Len(s) :
                      s[j] = 32 /\ \A h \in 1..(j - 1) : s[h] # 32
         IN <<SubSeq(s, 1, x - 1)>> \o split(SubSeq(s, x + 1, Len(s)))

\* (0u8..26).permutations(n): the ordered selections of n distinct letter
\* indices, in lexicographic order
\* variant: selections with repetition
PermSet_product(n) ==
    [1..n -> 0..(N - 1)]

PermSet(n) ==
    {p \in [1..n -> 0..(N - 1)] : \A x, y \in 1..n : x < y => p[x] # p[y]}

LexLess(p, q) ==
    \E x \in 1..Len(p) : p[x] < q[x] /\ \A y \in 1..(x - 1) : p[y] = q[y]

\* variant: combinations in place of permutations
permutations_increasing(n) ==
    LET C == {p \in PermSet(n) : \A x, y \in 1..n : x < y => p[x] < p[y]} IN
    [x \in 1..Cardinality(C) |->
        CHOOSE p \in C : Cardinality({q \in C : LexLess(q, p)}) = x - 1]

permutations(n) ==
    [x \in 1..Cardinality(PermSet(n)) |->
        CHOOSE p \in PermSet(n) :
            Cardinality({q \in PermSet(n) : LexLess(q, p)}) = x - 1]

Perms == [n \in 0..(N - 1) |-> permutations(n)]

\* one iteration of `for (i, &l) in prefix.iter().enumerate()`, i counted from 0:
\*     mapping = mapping.set(b'A' + l, b'a' + i as u8).unwrap()
prefix_step(m, p, n) ==
    LET r == set(m, 65 + p[n + 1], 97 + n) IN
    IF r.tag = "Err" THEN [tag |-> "Panic"] ELSE r

RECURSIVE build_prefix(_, _, _)
build_prefix(m, p, n) ==
    IF n >= Len(p) THEN Ok(m)
    ELSE LET r == prefix_step(m, p, n) IN
         IF r.tag # "Ok" THEN r ELSE build_prefix(r.val, p, n + 1)

\* variant: di = (di + 25) % 26, the scan runs backwards
RECURSIVE scan_backwards(_, _, _)
scan_backwards(fm, d, st) ==
    IF fm.map[d] = None THEN [exits |-> TRUE, di |-> d, steps |-> st]
    ELSE IF st >= N THEN [exits |-> FALSE, di |-> d, steps |-> st]
    ELSE scan_backwards(fm, (d + N - 1) % N, st + 1)

\* while fmapping.map[di].is_some() { di = (di + 1) % 26 }
\* st counts the iterations; with no unset entry the loop never exits
RECURSIVE scan(_, _, _)
scan(fm, d, st) ==
    IF fm.map[d] = None THEN [exits |-> TRUE, di |-> d, steps |-> st]
    ELSE IF st >= N THEN [exits |-> FALSE, di |-> d, steps |-> st]
    ELSE scan(fm, (d + 1) % N, st + 1)

\* variant: b'a' + di in place of b'a' + i
complete_step_di(fm, d, n) ==
    LET s == scan(fm, d, 0) IN
    IF ~s.exits THEN [tag |-> "Hang"]
    ELSE LET r == set(fm, 65 + s.di, 97 + s.di) IN
         IF r.tag = "Err" THEN [tag |-> "Panic"]
         ELSE [tag |-> "Ok", val |-> r.val, di |-> s.di, steps |-> s.steps]

\* one iteration of `for i in k..26`:
\*     while ..; fmapping = fmapping.set(b'A' + di, b'a' + i).unwrap()
complete_step(fm, d, n) ==
    LET s == scan(fm, d, 0) IN
    IF ~s.exits THEN [tag |-> "Hang"]
    ELSE LET r == set(fm, 65 + s.di, 97 + n) IN
         IF r.tag = "Err" THEN [tag |-> "Panic"]
         ELSE [tag |-> "Ok", val |-> r.val, di |-> s.di, steps |-> s.steps]

\* variant: for i in k..=26, one iteration more than there are letters
RECURSIVE complete_inclusive(_, _, _)
complete_inclusive(fm, d, n) ==
    IF n > N THEN Ok(fm)
    ELSE LET c == complete_step(fm, d, n) IN
         IF c.tag # "Ok" THEN c ELSE complete_inclusive(c.val, c.di, n + 1)

RECURSIVE complete(_, _, _)
complete(fm, d, n) ==
    IF n >= N THEN Ok(fm)
    ELSE LET c == complete_step(fm, d, n) IN
         IF c.tag # "Ok" THEN c ELSE complete(c.val, c.di, n + 1)

\* variant: any in place of all
valid_words_any(fm, cws, wbl) ==
    \E t \in 1..Len(cws) : apply(fm, cws[t]) \in wbl[Len(cws[t]) + 1]

\* ciper_words.iter().map(|x| fmapping.apply(x))
\*     .all(|cw| words_by_length[cw.len()].contains(cw.as_slice()))
valid_words(fm, cws, wbl) ==
    \A t \in 1..Len(cws) : apply(fm, cws[t]) \in wbl[Len(cws[t]) + 1]

\* variant: only the offset it is called with is tried
try_offsets_first(m, kk, o, cws, wbl) ==
    LET f == complete(m, o, kk) IN
    IF f.tag # "Ok" THEN f
    ELSE IF valid_words(f.val, cws, wbl) THEN [tag |-> "Some", val |-> f.val]
         ELSE [tag |-> "None"]

\* variant: the first completion is returned unvalidated
RECURSIVE try_offsets_novalidate(_, _, _, _, _)
try_offsets_novalidate(m, kk, o, cws, wbl) ==
    IF o >= N THEN [tag |-> "None"]
    ELSE LET f == complete(m, o, kk) IN
         IF f.tag # "Ok" THEN f ELSE [tag |-> "Some", val |-> f.val]

\* for offset in 0..26 { complete; if valid_words { return Some(fmapping) } }
\* return None
RECURSIVE try_offsets(_, _, _, _, _)
try_offsets(m, kk, o, cws, wbl) ==
    IF o >= N THEN [tag |-> "None"]
    ELSE LET f == complete(m, o, kk) IN
         IF f.tag # "Ok" THEN f
         ELSE IF valid_words(f.val, cws, wbl)
              THEN [tag |-> "Some", val |-> f.val]
              ELSE try_offsets(m, kk, o + 1, cws, wbl)

\* the closure handed to find_map_any
closure(kk, p, cws, wbl) ==
    LET b == build_prefix(Mapping_default, p, 0) IN
    IF b.tag # "Ok" THEN b
    ELSE try_offsets(b.val, kk, 0, cws, wbl)

(***************************************************************************)
(* Initial values of the variable groups a specification does not use      *)
(***************************************************************************)
CrackUnused ==
    /\ ciper = <<>>
    /\ words_by_length = <<{}>>
    /\ ciper_words = <<>>
    /\ pc = "unused"
    /\ iter = 0
    /\ running = {}
    /\ found = {}
    /\ result = None
    /\ started = [n \in 0..(N - 1) |-> {}]
    /\ evaluated = [n \in 0..(N - 1) |-> {}]

LoopUnused ==
    /\ prefix = <<>>
    /\ offset = 0
    /\ mapping = Mapping_default
    /\ fmapping = Mapping_default
    /\ di = 0
    /\ i = 0
    /\ steps = 0
    /\ cpc = "unused"

MappingUnused ==
    /\ self = Mapping_default
    /\ calls = <<>>
    /\ applied = None

(***************************************************************************)
(* crack: the search.  find_map_any runs the closure on the prefixes of    *)
(* permutations(k), pulled one at a time (par_bridge) by the workers; a    *)
(* worker whose closure returned Some keeps it and raises the shared flag  *)
(* (found # {}); the others stop pulling when they see the flag, which     *)
(* they may do late; the call returns once every worker has stopped, with  *)
(* one of the values kept.                                                 *)
(***************************************************************************)
max_length(c) ==
    LET ws == split(c) IN
    CHOOSE n \in 0..Len(c) :
        /\ \E t \in 1..Len(ws) : Len(ws[t]) = n
        /\ \A t \in 1..Len(ws) : Len(ws[t]) <= n

CipherBytes == Upper \cup {32, 97}      \* letters, ' ', 'a'
Ciphers == UNION {[1..n -> CipherBytes] : n \in 0..MaxCipherLen}

\* the dictionaries handed to crack: at most MaxDictWords words over a, b
DictWords == UNION {[1..n -> {97, 98}] : n \in 0..MaxWordLen}
Dicts == {W \in SUBSET DictWords : Cardinality(W) <= MaxDictWords}

\* one bucket per length 0 .. max_length, as main builds them for the ciphertext
Buckets(W, c) == [x \in 1..(max_length(c) + 1) |-> {w \in W : Len(w) = x - 1}]

Init ==
    /\ ciper \in Ciphers
    /\ \E W \in Dicts : words_by_length = Buckets(W, ciper)
    /\ ciper_words = split(ciper)
    /\ pc = "search"
    /\ k = 0
    /\ iter = 0
    /\ running = {}
    /\ found = {}
    /\ result = None
    /\ started = [n \in 0..(N - 1) |-> {}]
    /\ evaluated = [n \in 0..(N - 1) |-> {}]
    /\ LoopUnused
    /\ MappingUnused

\* an idle worker pulls the next prefix from the shared iterator
Take ==
    /\ pc = "search"
    /\ Cardinality(running) < NumWorkers
    /\ iter < Len(Perms[k])
    /\ running' = running \cup {Perms[k][iter + 1]}
    /\ iter' = iter + 1
    /\ started' = [started EXCEPT ![k] = @ \cup {Perms[k][iter + 1]}]
    /\ UNCHANGED <<ciper, words_by_length, ciper_words, pc, k, found, result, evaluated>>
    /\ UNCHANGED <<lvars, mvars>>

\* a worker runs the closure on its prefix to the end
Eval(p) ==
    /\ pc = "search"
    /\ p \in running
    /\ LET r == closure(k, p, ciper_words, words_by_length) IN
       IF r.tag \in {"Some", "None"}
       THEN /\ found' = IF r.tag = "Some" THEN found \cup {r.val} ELSE found
            /\ evaluated' = [evaluated EXCEPT
                                ![k] = @ \cup {[prefix |-> p, some |-> r.tag = "Some"]}]
            /\ running' = running \ {p}
            /\ pc' = pc
       ELSE /\ pc' = IF r.tag = "Hang" THEN "hung" ELSE "panicked"
            /\ UNCHANGED <<found, evaluated, running>>
    /\ UNCHANGED <<ciper, words_by_length, ciper_words, k, iter, result, started>>
    /\ UNCHANGED <<lvars, mvars>>

\* variant: the call returns as soon as no worker is running
AllStopped_nowait ==
    running = {}

\* variant: the call returns without waiting for the workers still running
AllStopped_exhausted ==
    iter = Len(Perms[k]) \/ found # {}

\* find_map_any returns: no worker is running, and none will pull again
AllStopped ==
    /\ running = {}
    /\ iter = Len(Perms[k]) \/ found # {}

\* if let Some(ciper_disk) = result { return Some(ciper_disk); }
ReturnSome ==
    /\ pc = "search"
    /\ AllStopped
    /\ found # {}
    /\ \E m \in found : result' = Some(m)
    /\ pc' = "done"
    /\ UNCHANGED <<ciper, words_by_length, ciper_words, k, iter, running, found,
                   started, evaluated>>
    /\ UNCHANGED <<lvars, mvars>>

\* find_map_any returned None: the next k
NextK ==
    /\ pc = "search"
    /\ AllStopped
    /\ found = {}
    /\ k + 1 < N
    /\ k' = k + 1
    /\ iter' = 0
    /\ UNCHANGED <<ciper, words_by_length, ciper_words, pc, running, found, result,
                   started, evaluated>>
    /\ UNCHANGED <<lvars, mvars>>

\* variant: None is returned from inside the loop
ReturnNone_early ==
    /\ pc = "search"
    /\ AllStopped
    /\ found = {}
    /\ pc' = "done"
    /\ result' = None
    /\ UNCHANGED <<ciper, words_by_length, ciper_words, k, iter, running, found,
                   started, evaluated>>
    /\ UNCHANGED <<lvars, mvars>>

\* the loop is over: return None
ReturnNone ==
    /\ pc = "search"
    /\ AllStopped
    /\ found = {}
    /\ k + 1 >= N
    /\ pc' = "done"
    /\ result' = None
    /\ UNCHANGED <<ciper, words_by_length, ciper_words, k, iter, running, found,
                   started, evaluated>>
    /\ UNCHANGED <<lvars, mvars>>

Next ==
    \/ Take
    \/ \E p \in running : Eval(p)
    \/ ReturnSome
    \/ NextK
    \/ ReturnNone

Spec == Init /\ [][Next]_vars

(***************************************************************************)
(* main up to the call of crack: max_length is taken from the ciphertext   *)
(* and words_by_length(max_length) builds the dictionary, statement by     *)
(* statement.  The bundled word file is any sequence of bytes a, \n, \r of *)
(* at most MaxFileLen bytes; the curated lists are cut to their first two  *)
(* words.  While it is built a bucket is a Vec (a sequence); the value     *)
(* returned holds sets.                                                    *)
(***************************************************************************)
two_words == << <<97, 109>>, <<97, 110>> >>                  \* "am", "an"
three_words == << <<97, 108, 108>>, <<97, 110, 100>> >>      \* "all", "and"

WordFiles == UNION {[1..n -> {97, 10, 13}] : n \in 0..MaxFileLen}

\* .split(|&c| c == b'\n' || c == b'\r')
RECURSIVE split_lines(_)
split_lines(s) ==
    IF \A x \in 1..Len(s) : s[x] \notin {10, 13} THEN <<s>>
    ELSE LET x == CHOOSE j \in 1..Len(s) :
                      s[j] \in {10, 13} /\ \A h \in 1..(j - 1) : s[h] \notin {10, 13}
         IN <<SubSeq(s, 1, x - 1)>> \o split_lines(SubSeq(s, x + 1, Len(s)))

\* .filter(|b| !b.is_empty() && b.len() <= max_length)
\* .for_each(|w| words_by_length[w.len()].push(w))
RECURSIVE push_words(_, _, _)
push_words(wbl, ws, ml) ==
    IF ws = <<>> THEN wbl
    ELSE LET w == Head(ws) IN
         IF w # <<>> /\ Len(w) <= ml
         THEN push_words([wbl EXCEPT ![Len(w) + 1] = Append(@, w)], Tail(ws), ml)
         ELSE push_words(wbl, Tail(ws), ml)

\* ws.iter().copied().collect::<HashSet<_>>()
collect_set(ws) == {ws[x] : x \in 1..Len(ws)}

InitWords ==
    /\ ciper \in Ciphers
    /\ words_by_length = <<>>
    /\ ciper_words = <<>>
    /\ pc = "alloc"
    /\ k = 0
    /\ iter = 0
    /\ running = {}
    /\ found = {}
    /\ result = None
    /\ started = [n \in 0..(N - 1) |-> {}]
    /\ evaluated = [n \in 0..(N - 1) |-> {}]
    /\ LoopUnused
    /\ MappingUnused

WordsFrame ==
    UNCHANGED <<ciper, ciper_words, k, iter, running, found, result, started,
                evaluated, lvars, mvars>>

\* let mut words_by_length = vec![Vec::new(); max_length + 1]
Alloc ==
    /\ pc = "alloc"
    /\ words_by_length' = [x \in 1..(max_length(ciper) + 1) |-> <<>>]
    /\ pc' = "fill"
    /\ WordsFrame

\* include_bytes!("../words.txt").split(..).filter(..).for_each(..)
Fill ==
    /\ pc = "fill"
    /\ \E f \in WordFiles :
          words_by_length' = push_words(words_by_length, split_lines(f),
                                        max_length(ciper))
    /\ pc' = "two"
    /\ WordsFrame

\* words_by_length[2] = two_words.to_vec(): the index is checked
SetTwo ==
    /\ pc = "two"
    /\ IF 2 < Len(words_by_length)
       THEN /\ words_by_length' = [words_by_length EXCEPT ![2 + 1] = two_words]
            /\ pc' = "three"
       ELSE /\ pc' = "panicked"
            /\ UNCHANGED words_by_length
    /\ WordsFrame

\* words_by_length[3] = three_words.to_vec(): the index is checked
SetThree ==
    /\ pc = "three"
    /\ IF 3 < Len(words_by_length)
       THEN /\ words_by_length' = [words_by_length EXCEPT ![3 + 1] = three_words]
            /\ pc' = "collect"
       ELSE /\ pc' = "panicked"
            /\ UNCHANGED words_by_length
    /\ WordsFrame

\* words_by_length.iter().map(|ws| ..collect::<HashSet<_>>()).collect()
Collect ==
    /\ pc = "collect"
    /\ words_by_length' = [x \in 1..Len(words_by_length) |->
                              collect_set(words_by_length[x])]
    /\ pc' = "built"
    /\ WordsFrame

NextWords == Alloc \/ Fill \/ SetTwo \/ SetThree \/ Collect

SpecWords == InitWords /\ [][NextWords]_vars

(***************************************************************************)
(* crack on the inputs where the workers race: a ciphertext of one token   *)
(* of MaxWordLen letters and a dictionary of words of that length over the *)
(* whole alphabet, so that several selections of one size may validate.    *)
(***************************************************************************)
RaceCiphers == [1..MaxWordLen -> Upper]
RaceDicts == {W \in SUBSET [1..MaxWordLen -> Lower] : Cardinality(W) <= MaxDictWords}

InitRace ==
    /\ ciper \in RaceCiphers
    /\ \E W \in RaceDicts : words_by_length = Buckets(W, ciper)
    /\ ciper_words = split(ciper)
    /\ pc = "search"
    /\ k = 0
    /\ iter = 0
    /\ running = {}
    /\ found = {}
    /\ result = None
    /\ started = [n \in 0..(N - 1) |-> {}]
    /\ evaluated = [n \in 0..(N - 1) |-> {}]
    /\ LoopUnused
    /\ MappingUnused

SpecRace == InitRace /\ [][Next]_vars

(***************************************************************************)
(* The closure's two loops, one iteration per step, for one prefix and one *)
(* offset.                                                                 *)
(***************************************************************************)
InitLoop ==
    /\ k \in 0..(N - 1)
    /\ prefix \in PermSet(k)
    /\ offset \in 0..(N - 1)
    /\ mapping = Mapping_default
    /\ fmapping = Mapping_default
    /\ di = 0
    /\ i = 0
    /\ steps = 0
    /\ cpc = "prefix"
    /\ CrackUnused
    /\ MappingUnused

\* mapping = mapping.set(b'A' + l, b'a' + i as u8).unwrap()
PrefixStep ==
    /\ cpc = "prefix"
    /\ i < Len(prefix)
    /\ LET r == prefix_step(mapping, prefix, i) IN
       IF r.tag = "Ok"
       THEN mapping' = r.val /\ i' = i + 1 /\ cpc' = cpc
       ELSE cpc' = "panicked" /\ UNCHANGED <<mapping, i>>
    /\ UNCHANGED <<prefix, offset, fmapping, di, steps, k, cvars, mvars>>

\* let mut fmapping = mapping.clone(); let mut di = offset; for i in k..26
Clone ==
    /\ cpc = "prefix"
    /\ i >= Len(prefix)
    /\ fmapping' = mapping
    /\ di' = offset
    /\ i' = k
    /\ cpc' = "complete"
    /\ UNCHANGED <<prefix, offset, mapping, steps, k, cvars, mvars>>

\* while ..; fmapping = fmapping.set(b'A' + di, b'a' + i).unwrap()
CompleteStep ==
    /\ cpc = "complete"
    /\ i < N
    /\ LET c == complete_step(fmapping, di, i) IN
       IF c.tag = "Ok"
       THEN /\ fmapping' = c.val
            /\ di' = c.di
            /\ steps' = c.steps
            /\ i' = i + 1
            /\ cpc' = cpc
       ELSE /\ cpc' = IF c.tag = "Hang" THEN "hung" ELSE "panicked"
            /\ UNCHANGED <<fmapping, di, steps, i>>
    /\ UNCHANGED <<prefix, offset, mapping, k, cvars, mvars>>

\* the for loop over i ends: fmapping is the completion
Completed ==
    /\ cpc = "complete"
    /\ i >= N
    /\ cpc' = "completed"
    /\ UNCHANGED <<prefix, offset, mapping, fmapping, di, i, steps, k, cvars, mvars>>

NextLoop == PrefixStep \/ Clone \/ CompleteStep \/ Completed

SpecLoop == InitLoop /\ [][NextLoop]_vars

(***************************************************************************)
(* Mapping on its own: a caller threads a Mapping through set calls, as    *)
(* crack does (mapping = mapping.set(..)), keeping its value when set      *)
(* reports a conflict.                                                     *)
(***************************************************************************)
Last2(s) == IF Len(s) > 2 THEN SubSeq(s, Len(s) - 1, Len(s)) ELSE s

InitM ==
    /\ k = 0
    /\ CrackUnused
    /\ LoopUnused
    /\ MappingUnused

MSet(c, l) ==
    LET r == set(self, c, l) IN
    /\ calls' = Last2(Append(calls, [c |-> c, l |-> l, on |-> self, ret |-> r,
                                     after |-> set_self(self, c, l)]))
    /\ self' = IF r.tag = "Ok" THEN r.val ELSE set_self(self, c, l)
    /\ UNCHANGED <<applied, k, cvars, lvars>>

NextSet == \E c \in Upper, l \in Lower : MSet(c, l)

SpecSet == InitM /\ [][NextSet]_vars

(***************************************************************************)
(* Mapping on its own: a Mapping is built by successful set calls and then *)
(* applied once to a text, as main does with the Mapping crack returned.   *)
(***************************************************************************)
TextBytes == Upper \cup {32, 64, 91, 97}      \* letters, ' ', '@', '[', 'a'
Texts == UNION {[1..n -> TextBytes] : n \in 0..MaxTextLen}

ASet(c, l) ==
    LET r == set(self, c, l) IN
    /\ applied = None
    /\ r.tag = "Ok"
    /\ self' = r.val
    /\ UNCHANGED <<calls, applied, k, cvars, lvars>>

AApply(text) ==
    /\ applied = None
    /\ applied' = Some([text |-> text, on |-> self, out |-> apply(self, text)])
    /\ UNCHANGED <<self, calls, k, cvars, lvars>>

NextApply ==
    \/ \E c \in Upper, l \in Lower : ASet(c, l)
    \/ \E text \in Texts : AApply(text)

SpecApply == InitM /\ [][NextApply]_vars

(***************************************************************************)
(* Properties of Mapping                                                   *)
(***************************************************************************)
SameMapping(a, b) == a.map = b.map /\ a.members = b.members

\* the second of two successive set calls repeats the ciphertext letter of the
\* first, which succeeded
Repeats ==
    /\ Len(calls) = 2
    /\ calls[1].ret.tag = "Ok"
    /\ calls[2].c = calls[1].c

\* C6: after set(c, l1) succeeded, set(c, l2) with l2 # l1 on its result reports
\* a conflict, and the Mapping it was called on is the same afterwards (same
\* assignment table, same members)
C6_ConflictRejected ==
    (Repeats /\ calls[2].l # calls[1].l) =>
        /\ calls[2].on = calls[1].ret.val
        /\ calls[2].ret = Err
        /\ SameMapping(self, calls[2].on)

C6_Witness ==
    /\ Repeats
    /\ calls[2].l # calls[1].l
    /\ calls[2].ret.tag = "Err"
    /\ calls[1].on # Mapping_default

\* C7: on a Mapping in which c is unset or already l, set(c, l) succeeds; a
\* second set(c, l) on the result succeeds too, and both results are the same
\* Mapping (same assignment table, same members)
C7_SetIdempotent ==
    /\ \A n \in 1..Len(calls) :
          calls[n].on.map[calls[n].c - 65] \in {None, Some(calls[n].l)}
              => calls[n].ret.tag = "Ok"
    /\ (Repeats /\ calls[2].l = calls[1].l) =>
          /\ calls[2].on = calls[1].ret.val
          /\ calls[2].ret.tag = "Ok"
          /\ SameMapping(calls[2].ret.val, calls[1].ret.val)

C7_Witness ==
    /\ Repeats
    /\ calls[2].l = calls[1].l
    /\ calls[2].ret.tag = "Ok"
    /\ calls[1].on.map[calls[1].c - 65] = None
    /\ calls[1].on # Mapping_default

\* C8: apply returns as many bytes as it was given; the byte at each position
\* is the plaintext letter of the input byte when that is an uppercase letter
\* set in the Mapping, and the input byte itself otherwise
C8_ApplyBytewise ==
    applied # None =>
        LET a == applied[1] IN
        /\ Len(a.out) = Len(a.text)
        /\ \A x \in 1..Len(a.text) :
              IF a.text[x] \in Upper /\ a.on.map[a.text[x] - 65] # None
              THEN a.out[x] = a.on.map[a.text[x] - 65][1]
              ELSE a.out[x] = a.text[x]

\* a set letter next to a byte that passes through
C8_Witness ==
    /\ applied # None
    /\ LET a == applied[1] IN
       /\ Len(a.text) = 2
       /\ a.text[1] \in Upper /\ a.on.map[a.text[1] - 65] # None
       /\ a.out[1] \in Lower
       /\ \/ a.text[2] \notin Upper
          \/ a.on.map[a.text[2] - 65] = None
       /\ a.out[2] = a.text[2]

\* bit b of a members bitset
Bit(members, b) == (members \div (2 ^ b)) % 2

\* C13: a successful set(c, l) returns a Mapping whose entry for c is l, whose
\* other entries are those of the Mapping it was called on, and whose members
\* are those of that Mapping with bit l set; the Mapping it was called on is
\* the same after the call
C13_SetFrame ==
    \A n \in 1..Len(calls) :
        calls[n].ret.tag = "Ok" =>
            LET a == calls[n] IN
            /\ a.ret.val.map[a.c - 65] = Some(a.l)
            /\ \A x \in 0..(N - 1) : x # a.c - 65 => a.ret.val.map[x] = a.on.map[x]
            /\ \A b \in 0..(N - 1) :
                  Bit(a.ret.val.members, b) =
                      IF b = a.l - 97 THEN 1 ELSE Bit(a.on.members, b)
            /\ a.ret.val.members < 2 ^ N
            /\ a.after = a.on

\* a new letter set in a Mapping that already holds another one
C13_Witness ==
    /\ Len(calls) >= 1
    /\ LET a == calls[Len(calls)] IN
       /\ a.ret.tag = "Ok"
       /\ a.on.map[a.c - 65] = None
       /\ \E x \in 0..(N - 1) : a.on.map[x] # None
       /\ Bit(a.on.members, a.l - 97) = 0
       /\ a.on.members # 0

\* C14: whatever set calls were made from the empty Mapping, failed ones
\* included, bit l of members is set exactly when some ciphertext letter is
\* assigned plaintext letter l
C14_MembersMatchTable ==
    \A b \in 0..(N - 1) :
        Bit(self.members, b) = 1 <=> \E x \in 0..(N - 1) : self.map[x] = Some(97 + b)

\* after a failed call, with a plaintext letter shared and another one unused
C14_Witness ==
    /\ Len(calls) = 2
    /\ calls[1].ret.tag = "Err"
    /\ calls[2].ret.tag = "Ok"
    /\ \E x, y \in 0..(N - 1) : x # y /\ self.map[x] # None /\ self.map[x] = self.map[y]
    /\ \E b \in 0..(N - 1) : Bit(self.members, b) = 0

\* the call sets an unset letter c2 to a plaintext letter another letter c1 holds
SharesLetter(a) ==
    /\ a.on.map[a.c - 65] = None
    /\ \E x \in 0..(N - 1) : x # a.c - 65 /\ a.on.map[x] = Some(a.l)

\* C15: set(c2, l) on a Mapping where c2 is unset and another letter c1 is
\* assigned l succeeds, and in its result both c1 and c2 decode to l
C15_NoUniqueness ==
    \A n \in 1..Len(calls) :
        SharesLetter(calls[n]) =>
            LET a == calls[n] IN
            /\ a.ret.tag = "Ok"
            /\ a.ret.val.map[a.c - 65] = Some(a.l)
            /\ \A x \in 0..(N - 1) :
                  a.on.map[x] = Some(a.l) => a.ret.val.map[x] = Some(a.l)

C15_Witness ==
    /\ Len(calls) >= 1
    /\ SharesLetter(calls[Len(calls)])
    /\ calls[Len(calls)].ret.tag = "Ok"
    /\ Cardinality({x \in 0..(N - 1) :
                       self.map[x] = Some(calls[Len(calls)].l)}) >= 2

(***************************************************************************)
(* Properties of the completion                                            *)
(***************************************************************************)
\* C9: for every prefix size, ordered selection and offset, the completed
\* Mapping has every ciphertext letter set and every plaintext letter assigned
\* to exactly one ciphertext letter
C9_CompletionBijective ==
    cpc = "completed" =>
        /\ \A c \in 0..(N - 1) : fmapping.map[c] # None
        /\ \A l \in Lower :
              Cardinality({c \in 0..(N - 1) : fmapping.map[c] = Some(l)}) = 1

\* a completion that skips a prefix letter while scanning
C9_Witness ==
    /\ cpc = "completed"
    /\ k >= 1
    /\ steps >= 1

\* the ciphertext letters the prefix does not assign, in the cyclic order
\* offset, offset + 1, .., N - 1, 0, .., offset - 1
Rest ==
    SelectSeq([j \in 1..N |-> (offset + j - 1) % N],
              LAMBDA c : \A x \in 1..Len(prefix) : prefix[x] # c)

\* C16: the completion of a prefix of size k and an offset gives plaintext
\* letter k + j to the j-th ciphertext letter the prefix does not assign,
\* counted cyclically from the offset, and leaves prefix[x] decoding to
\* plaintext letter x
C16_CompletionOrder ==
    cpc = "completed" =>
        /\ Len(Rest) = N - k
        /\ \A j \in 1..Len(Rest) : fmapping.map[Rest[j]] = Some(97 + k + (j - 1))
        /\ \A x \in 1..Len(prefix) :
              /\ mapping.map[prefix[x]] = Some(97 + (x - 1))
              /\ fmapping.map[prefix[x]] = Some(97 + (x - 1))

\* the scan starts on the prefix letter, skips it and wraps around
C16_Witness ==
    /\ cpc = "completed"
    /\ k = 1
    /\ offset = N - 1
    /\ prefix[1] = offset

\* C17: every set call of the two loops targets a ciphertext letter that is
\* unset at that moment, and neither unwrap fails, for every prefix size,
\* ordered selection and offset
C17_NoConflictInCrack ==
    /\ cpc # "panicked"
    /\ (cpc = "prefix" /\ i < Len(prefix)) =>
          /\ mapping.map[prefix[i + 1]] = None
          /\ prefix_step(mapping, prefix, i).tag = "Ok"
    /\ (cpc = "complete" /\ i < N) =>
          LET s == scan(fmapping, di, 0) IN
          s.exits => /\ fmapping.map[s.di] = None
                     /\ complete_step(fmapping, di, i).tag = "Ok"

\* the longest prefix, completed from the last offset
C17_Witness ==
    /\ cpc = "completed"
    /\ Len(prefix) = N - 1
    /\ offset = N - 1
    /\ prefix[1] = 0

(***************************************************************************)
(* Properties of crack                                                     *)
(***************************************************************************)
\* a token decoded letter by letter with an assignment table
DecodeWith(m, tok) ==
    [x \in 1..Len(tok) |->
        IF tok[x] \in Upper /\ m.map[tok[x] - 65] # None
        THEN m.map[tok[x] - 65][1]
        ELSE tok[x]]

InBucket(w) ==
    /\ Len(w) + 1 \in DOMAIN words_by_length
    /\ w \in words_by_length[Len(w) + 1]

\* every space-separated token of the ciphertext decodes to a word of the
\* bucket of its length
Decodes(m) ==
    LET toks == split(ciper) IN
    \A t \in 1..Len(toks) : InBucket(DecodeWith(m, toks[t]))

\* the total one-to-one assignments of ciphertext letters to plaintext letters
Bijections ==
    {f \in [0..(N - 1) -> Lower] : \A x, y \in 0..(N - 1) : x # y => f[x] # f[y]}

Solvable ==
    \E f \in Bijections :
        Decodes([map |-> [x \in 0..(N - 1) |-> Some(f[x])], members |-> 0])

\* the completion crack builds for an ordered selection and an offset
Completion(p, o) == complete(build_prefix(Mapping_default, p, 0).val, o, Len(p)).val

AllFailed(n) == {[prefix |-> p, some |-> FALSE] : p \in PermSet(n)}

\* C1: a Mapping returned by crack decodes every token of the ciphertext to a
\* word of the dictionary bucket of that token's length
C1_ReturnedMappingDecodes ==
    (pc = "done" /\ result # None) => Decodes(result[1])

\* two different tokens, both decoded
C1_Witness ==
    /\ pc = "done"
    /\ result # None
    /\ Len(ciper_words) = 2
    /\ ciper_words[1] # <<>>
    /\ ciper_words[2] # <<>>
    /\ ciper_words[1] # ciper_words[2]

\* C2: crack returns a Mapping exactly when some total one-to-one assignment
\* decodes every token to a dictionary word of its length; it returns None only
\* when there is none; no unwrap fails and no closure call hangs on the way
C2_FindsAnySolution ==
    /\ pc \in {"search", "done"}
    /\ pc = "done" => (result # None <=> Solvable)

\* a solution found after prefix size 0 was exhausted
C2_Witness ==
    /\ pc = "done"
    /\ result # None
    /\ Solvable
    /\ evaluated[0] = AllFailed(0)

HasEmptyBucketToken ==
    \E t \in 1..Len(ciper_words) : words_by_length[Len(ciper_words[t]) + 1] = {}

\* C3: with a token whose length has an empty bucket, crack returns None, never
\* a Mapping, and only after the closure ran, and failed, on every ordered
\* selection of every prefix size
C3_EmptyBucketFails ==
    HasEmptyBucketToken =>
        /\ pc \in {"search", "done"}
        /\ found = {}
        /\ pc = "done" =>
              /\ result = None
              /\ \A n \in 0..(N - 1) : evaluated[n] = AllFailed(n)

\* two tokens, the bucket of each empty
C3_Witness ==
    /\ pc = "done"
    /\ result = None
    /\ Len(ciper_words) = 2
    /\ \A t \in 1..2 :
          /\ ciper_words[t] # <<>>
          /\ words_by_length[Len(ciper_words[t]) + 1] = {}

\* C4: the Mapping returned is the completion of an ordered selection of size k
\* and an offset that validates; no selection of a smaller size validates with
\* any offset; and no selection of a larger size was ever pulled
C4_SmallestPrefixSize ==
    /\ \A n \in (k + 1)..(N - 1) : started[n] = {}
    /\ (pc = "done" /\ result # None) =>
          /\ \E p \in PermSet(k), o \in 0..(N - 1) :
                Completion(p, o) = result[1] /\ Decodes(Completion(p, o))
          /\ \A n \in 0..(k - 1) : \A p \in PermSet(n), o \in 0..(N - 1) :
                ~Decodes(Completion(p, o))

\* a Mapping returned for a prefix size above 0, with a later size left
C4_Witness ==
    /\ pc = "done"
    /\ result # None
    /\ k >= 1
    /\ k < N - 1

\* C5: a selection of size n is pulled only after the closure ran, and failed,
\* on every selection of size n - 1; the workers only run selections of the
\* current size, and only pulled ones
C5_PrefixSizesInOrder ==
    /\ \A n \in 1..(N - 1) : started[n] # {} => evaluated[n - 1] = AllFailed(n - 1)
    /\ running \subseteq started[k]
    /\ Cardinality(running) <= NumWorkers
    /\ \A n \in 0..(N - 1) :
          /\ started[n] \subseteq PermSet(n)
          /\ {e.prefix : e \in evaluated[n]} \subseteq started[n]

\* every worker busy with a selection of the last size
C5_Witness ==
    /\ k = N - 1
    /\ Cardinality(running) = NumWorkers
    /\ evaluated[k] # {}

OneLetterOnlyA ==
    /\ Len(ciper) = 1
    /\ ciper[1] \in Upper
    /\ words_by_length[2] = {<<97>>}

\* C10: for a ciphertext of one uppercase letter and a length-1 bucket holding
\* only the word a, crack returns a Mapping, and every Mapping it can return
\* decodes that letter to a
C10_SingleLetterDecodesToA ==
    OneLetterOnlyA =>
        /\ pc \in {"search", "done"}
        /\ pc = "done" =>
              /\ result # None
              /\ get(result[1], ciper[1]) = Some(97)

C10_Witness ==
    /\ OneLetterOnlyA
    /\ pc = "done"
    /\ result # None
    /\ ciper[1] # 65

\* the total assignments of plaintext letters to ciphertext letters, one-to-one
\* or not
Assignments == [0..(N - 1) -> Lower]

AsMapping(f) == [map |-> [x \in 0..(N - 1) |-> Some(f[x])], members |-> 0]

\* no two different ciphertext letters decode to the same plaintext letter
Injective(m) ==
    \A x, y \in 0..(N - 1) : (x # y /\ m.map[x] # None) => m.map[x] # m.map[y]

\* an assignment that decodes every token to a dictionary word while two
\* different letters of the ciphertext share a plaintext letter
Colliding(f) ==
    /\ Decodes(AsMapping(f))
    /\ \E a, b \in 1..Len(ciper) :
          /\ ciper[a] \in Upper /\ ciper[b] \in Upper
          /\ ciper[a] # ciper[b]
          /\ f[ciper[a] - 65] = f[ciper[b] - 65]

\* only assignments that are not one-to-one decode every token
OnlyCollidingSolvable ==
    /\ ~Solvable
    /\ \E f \in Assignments : Colliding(f)

\* C11 as stated: where every token decoded with an assignment that is not
\* one-to-one is in the dictionary, crack accepts it: it returns a Mapping in
\* which two different ciphertext letters decode to the same plaintext letter
C11_NonBijectiveAccepted ==
    (pc = "done" /\ OnlyCollidingSolvable) =>
        (result # None /\ ~Injective(result[1]))

\* C11, amended: crack never returns a Mapping that is not one-to-one: every
\* Mapping it returns has every ciphertext letter set and no two ciphertext
\* letters decoding to the same plaintext letter; where only assignments that
\* are not one-to-one decode every token to a dictionary word, it returns None
C11_ReturnedMappingBijective ==
    /\ (pc = "done" /\ result # None) =>
          /\ \A c \in 0..(N - 1) : result[1].map[c] # None
          /\ Injective(result[1])
    /\ (pc = "done" /\ OnlyCollidingSolvable) => result = None

\* a Mapping returned where an assignment that is not one-to-one would have
\* decoded every token as well
C11_Witness ==
    /\ pc = "done"
    /\ result # None
    /\ \E f \in Assignments : Colliding(f)

\* the ordered selections of size n that validate with some offset
Validating(n) ==
    {p \in PermSet(n) : \E o \in 0..(N - 1) : Decodes(Completion(p, o))}

\* what the closure returns for a validating selection: the completion of the
\* first offset that validates
FirstValid(p) ==
    LET o == CHOOSE o1 \in 0..(N - 1) :
                 /\ Decodes(Completion(p, o1))
                 /\ \A o2 \in 0..(o1 - 1) : ~Decodes(Completion(p, o2))
    IN Completion(p, o)

SolvedAt == {n \in 0..(N - 1) : Validating(n) # {}}

\* C12: whatever the interleaving of the workers, crack fails exactly when no
\* prefix size has a validating selection, and otherwise returns at the
\* smallest such size, with one of the Mappings the workers found, each the
\* closure's result for a validating selection of that size
C12_RaceOnlyPicksCompletion ==
    /\ found # {} => k \in SolvedAt
    /\ pc = "done" =>
          IF SolvedAt = {}
          THEN result = None /\ k = N - 1
          ELSE /\ \A n \in SolvedAt : k <= n
               /\ result # None
               /\ result[1] \in found
               /\ found \subseteq {FirstValid(p) : p \in Validating(k)}

\* crack returned while the workers held two different validating Mappings
C12_Witness ==
    /\ pc = "done"
    /\ result # None
    /\ Cardinality(found) >= 2

\* the steps crack can still take: per remaining prefix size a pull and a
\* closure return for each selection and the end of find_map_any, and the return
RECURSIVE Work(_)
Work(n) == IF n >= N THEN 0 ELSE 2 * Len(Perms[n]) + 1 + Work(n + 1)

Measure ==
    IF pc = "search" THEN 1 + Work(k) - 2 * iter + Cardinality(running) ELSE 0

\* crack has a step to take: a worker can pull, a closure call can return, or
\* find_map_any can return
CanStep ==
    \/ Cardinality(running) < NumWorkers /\ iter < Len(Perms[k])
    \/ running # {}
    \/ AllStopped

\* C18: crack terminates on every input: no closure call is ever in a scan
\* that finds no unset letter within N steps, the prefix size stays within
\* 0 .. N - 1, crack always has a step to take until it has returned, and every
\* step uses up one of a bounded number of steps
C18_CrackTerminates ==
    /\ [](/\ pc \in {"search", "done"}
          /\ k \in 0..(N - 1)
          /\ iter <= Len(Perms[k])
          /\ Measure >= 0
          /\ pc = "search" => CanStep)
    /\ [][Measure' < Measure]_vars

\* crack returned after the closure ran on every selection of every prefix size
C18_Witness ==
    /\ pc = "done"
    /\ k = N - 1
    /\ \A n \in 0..(N - 1) : Cardinality(evaluated[n]) = Len(Perms[n])
    /\ \E x \in 1..Len(ciper) : ciper[x] \in Upper

(***************************************************************************)
(* Properties of words_by_length                                           *)
(***************************************************************************)
\* C19: for every ciphertext whose longest token has max_length >= 1 letters,
\* max_length below 3 included, words_by_length(max_length) completes, and the
\* value it returns has the buckets 0 .. max_length, every word of bucket L of
\* length L, the buckets 2 and 3 holding the curated lists
C19_BucketsForEveryLength ==
    max_length(ciper) >= 1 =>
        /\ pc # "panicked"
        /\ pc = "built" =>
              /\ Len(words_by_length) = max_length(ciper) + 1
              /\ \A x \in 1..Len(words_by_length) :
                    \A w \in words_by_length[x] : Len(w) = x - 1
              /\ words_by_length[3] = collect_set(two_words)
              /\ words_by_length[4] = collect_set(three_words)

====
